---------------------------- MODULE Spec2Model ----------------------------
(***************************************************************************)
(* Model of zimage/inference_service.py: a Zenoh queryable that answers    *)
(* image-generation queries with a placeholder result.                     *)
(*                                                                         *)
(* A Python str is a sequence of one-character strings, so that split,     *)
(* parse_qs, unquote, int and float are computed character by character.   *)
(***************************************************************************)
EXTENDS Integers, Sequences, FiniteSets, TLC

(***************************************************************************)
(* Bounds of the model.                                                    *)
(***************************************************************************)
\* Requests the clients issue in one behaviour of Spec.
MaxRequests == 3
\* '&'-separated pieces of a generated query component in SpecParse.
MaxPieces == 2

(***************************************************************************)
(* Characters.                                                             *)
(***************************************************************************)
Range(s) == {s[i] : i \in 1..Len(s)}

\* The printable ASCII characters, code points 32..126 in order (the grave
\* accent, code point 96, cannot be written in a TLA+ string and is named).
Printable ==
  <<" ","!","\"","#","$","%","&","'","(",")","*","+",",","-",".","/",
    "0","1","2","3","4","5","6","7","8","9",":",";","<","=",">","?","@",
    "A","B","C","D","E","F","G","H","I","J","K","L","M","N","O","P","Q",
    "R","S","T","U","V","W","X","Y","Z","[","\\","]","^","_","U+0060",
    "a","b","c","d","e","f","g","h","i","j","k","l","m","n","o","p","q",
    "r","s","t","u","v","w","x","y","z","{","|","}","~">>

Digits == <<"0","1","2","3","4","5","6","7","8","9">>

IsDigit(c) == c \in Range(Digits)

DigitVal(c) == (CHOOSE i \in 1..Len(Digits) : Digits[i] = c) - 1

\* str.isspace for the ASCII range.
Whitespace == {" ", "\t", "\n", "\r", "\f"}

\* chr(n) for a decoded byte. Bytes outside printable ASCII and the ASCII
\* whitespace controls are outside the modelled alphabet; a byte >= 128 that
\* is not valid UTF-8 decodes to U+FFFD (errors='replace').
Chr(n) ==
  IF n >= 32 /\ n <= 126 THEN Printable[n - 31]
  ELSE IF n = 9 THEN "\t"
  ELSE IF n = 10 THEN "\n"
  ELSE IF n = 12 THEN "\f"
  ELSE IF n = 13 THEN "\r"
  ELSE IF n >= 128 THEN "U+FFFD"
  ELSE "U+00XX"

HexDigits ==
  <<"0","1","2","3","4","5","6","7","8","9","a","b","c","d","e","f">>

\* str.lower for one ASCII character.
Lower(c) ==
  IF \E i \in 34..59 : Printable[i] = c
  THEN Printable[(CHOOSE i \in 34..59 : Printable[i] = c) + 32]
  ELSE c

IsHex(c) == Lower(c) \in Range(HexDigits)

HexVal(c) == (CHOOSE i \in 1..Len(HexDigits) : HexDigits[i] = Lower(c)) - 1

(***************************************************************************)
(* Python str operations used by the service and by urllib.parse.          *)
(***************************************************************************)
\* Index of the first c in s, 0 when there is none (str.find, 1-based).
find(s, c) ==
  IF \E i \in 1..Len(s) : s[i] = c
  THEN CHOOSE i \in 1..Len(s) : s[i] = c /\ \A j \in 1..(i - 1) : s[j] # c
  ELSE 0

\* s.split(c): the pieces of s between the occurrences of c.
RECURSIVE split(_, _)
split(s, c) ==
  LET i == find(s, c)
  IN  IF i = 0 THEN <<s>>
      ELSE <<SubSeq(s, 1, i - 1)>> \o split(SubSeq(s, i + 1, Len(s)), c)

\* s.partition(c): what precedes the first c, whether there is one, the rest.
partition(s, c) ==
  LET i == find(s, c)
  IN  IF i = 0 THEN [name |-> s, has_eq |-> FALSE, value |-> <<>>]
      ELSE [name |-> SubSeq(s, 1, i - 1), has_eq |-> TRUE,
            value |-> SubSeq(s, i + 1, Len(s))]

\* s.replace('+', ' ').
replace_plus(s) == [i \in 1..Len(s) |-> IF s[i] = "+" THEN " " ELSE s[i]]

\* urllib.parse.unquote: every %XX with two hex digits becomes the byte XX;
\* anything else, a lone or malformed % included, is kept as it is.
RECURSIVE unquote(_)
unquote(s) ==
  IF s = <<>> THEN <<>>
  ELSE IF s[1] = "%" /\ Len(s) >= 3 /\ IsHex(s[2]) /\ IsHex(s[3])
       THEN <<Chr(16 * HexVal(s[2]) + HexVal(s[3]))>>
            \o unquote(SubSeq(s, 4, Len(s)))
       ELSE <<s[1]>> \o unquote(Tail(s))

\* s.strip(): leading and trailing whitespace removed.
RECURSIVE lstrip(_)
lstrip(s) ==
  IF s # <<>> /\ s[1] \in Whitespace THEN lstrip(Tail(s)) ELSE s

RECURSIVE rstrip(_)
rstrip(s) ==
  IF s # <<>> /\ s[Len(s)] \in Whitespace
  THEN rstrip(SubSeq(s, 1, Len(s) - 1)) ELSE s

strip(s) == rstrip(lstrip(s))


(***************************************************************************)
(* String literals of the standard library's float().                     *)
(***************************************************************************)
LitInf == <<"i","n","f">>
LitInfinity == <<"i","n","f","i","n","i","t","y">>
LitNan == <<"n","a","n">>

(***************************************************************************)
(* int() and float() of a str.  Both return [ok, val]; ok = FALSE is the   *)
(* ValueError the conversion raises.                                       *)
(***************************************************************************)
\* A run of digits in which single underscores may stand between digits.
IsDigitRun(s) ==
  /\ s # <<>>
  /\ \A i \in 1..Len(s) :
       \/ IsDigit(s[i])
       \/ /\ s[i] = "_"
          /\ i > 1 /\ i < Len(s)
          /\ IsDigit(s[i - 1]) /\ IsDigit(s[i + 1])

\* The digits of a digit run, underscores dropped.
RECURSIVE digits_of(_)
digits_of(s) ==
  IF s = <<>> THEN <<>>
  ELSE IF s[1] = "_" THEN digits_of(Tail(s))
  ELSE <<s[1]>> \o digits_of(Tail(s))

\* The number a sequence of digits writes in base 10.
RECURSIVE digits_value(_)
digits_value(s) ==
  IF s = <<>> THEN 0
  ELSE 10 * digits_value(SubSeq(s, 1, Len(s) - 1)) + DigitVal(s[Len(s)])

\* An optional leading sign, split off.
signed(s) ==
  IF s # <<>> /\ s[1] \in {"+", "-"}
  THEN [neg |-> s[1] = "-", body |-> Tail(s)]
  ELSE [neg |-> FALSE, body |-> s]

\* int(s): whitespace stripped, an optional sign, a digit run.
int(s) ==
  LET t == signed(strip(s))
  IN  IF IsDigitRun(t.body)
      THEN [ok |-> TRUE,
            val |-> IF t.neg THEN 0 - digits_value(digits_of(t.body))
                    ELSE digits_value(digits_of(t.body))]
      ELSE [ok |-> FALSE, val |-> 0]

lower(s) == [i \in 1..Len(s) |-> Lower(s[i])]

\* A finite float m * 10^e without trailing zeros in m.
RECURSIVE normal(_, _)
normal(m, e) ==
  IF m = 0 THEN [m |-> 0, e |-> 0]
  ELSE IF m % 10 = 0 THEN normal(m \div 10, e + 1)
  ELSE [m |-> m, e |-> e]

finite(neg, m, e) ==
  [kind |-> "finite", neg |-> neg, m |-> normal(m, e).m, e |-> normal(m, e).e]

\* float(s): whitespace stripped, an optional sign, then inf, infinity or nan
\* in any case, or a decimal with an optional exponent.
float(s) ==
  LET t    == signed(strip(s))
      low  == lower(t.body)
      ie   == find(low, "e")
      mant == IF ie = 0 THEN low ELSE SubSeq(low, 1, ie - 1)
      ex   == signed(IF ie = 0 THEN <<>> ELSE SubSeq(low, ie + 1, Len(low)))
      dot  == partition(mant, ".")
      ip   == dot.name
      fp   == dot.value
      bad  == [ok |-> FALSE, val |-> finite(FALSE, 0, 0)]
  IN  IF low \in {LitInf, LitInfinity}
      THEN [ok |-> TRUE, val |-> [kind |-> "inf", neg |-> t.neg, m |-> 0, e |-> 0]]
      ELSE IF low = LitNan
      THEN [ok |-> TRUE, val |-> [kind |-> "nan", neg |-> FALSE, m |-> 0, e |-> 0]]
      ELSE IF /\ ip = <<>> \/ IsDigitRun(ip)
              /\ fp = <<>> \/ IsDigitRun(fp)
              /\ ip # <<>> \/ fp # <<>>
              /\ ie # 0 => IsDigitRun(ex.body)
      THEN [ok |-> TRUE,
            val |-> finite(t.neg,
                           digits_value(digits_of(ip) \o digits_of(fp)),
                           (IF ie = 0 THEN 0
                            ELSE IF ex.neg THEN 0 - digits_value(digits_of(ex.body))
                            ELSE digits_value(digits_of(ex.body)))
                           - Len(digits_of(fp)))]
      ELSE bad

(***************************************************************************)
(* urllib.parse.parse_qs with its defaults: separator '&', blank values    *)
(* dropped, no strict parsing.                                             *)
(***************************************************************************)
\* parse_qsl: the (name, value) pairs in order.  A piece that is empty, has
\* no '=' or has nothing after its first '=' is skipped; names and values
\* have '+' turned into ' ' and are percent-decoded.
RECURSIVE pairs_of(_)
pairs_of(pieces) ==
  IF pieces = <<>> THEN <<>>
  ELSE LET nv == partition(Head(pieces), "=")
       IN  (IF nv.has_eq /\ Len(nv.value) > 0
            THEN <<[name  |-> unquote(replace_plus(nv.name)),
                    value |-> unquote(replace_plus(nv.value))]>>
            ELSE <<>>)
           \o pairs_of(Tail(pieces))

parse_qsl(qs) == pairs_of(split(qs, "&"))

\* Mutant of parse_qs: a later value of a name goes before the earlier ones.
RECURSIVE collect_reversed(_, _)
collect_reversed(pairs, parsed_result) ==
  IF pairs = <<>> THEN parsed_result
  ELSE LET p == Head(pairs)
       IN  collect_reversed(Tail(pairs),
             [n \in DOMAIN parsed_result \cup {p.name} |->
                IF n = p.name
                THEN (IF n \in DOMAIN parsed_result
                      THEN <<p.value>> \o parsed_result[n]
                      ELSE <<p.value>>)
                ELSE parsed_result[n]])

parse_qs_last_first(qs) ==
  collect_reversed(pairs_of(split(qs, "&")), [n \in {} |-> <<>>])

\* parse_qs: each name mapped to the list of its values, in order.
RECURSIVE collect(_, _)
collect(pairs, parsed_result) ==
  IF pairs = <<>> THEN parsed_result
  ELSE LET p == Head(pairs)
       IN  collect(Tail(pairs),
             [n \in DOMAIN parsed_result \cup {p.name} |->
                IF n = p.name
                THEN (IF n \in DOMAIN parsed_result
                      THEN Append(parsed_result[n], p.value)
                      ELSE <<p.value>>)
                ELSE parsed_result[n]])

parse_qs(qs) == collect(parse_qsl(qs), [n \in {} |-> <<>>])


(***************************************************************************)
(* String literals of inference_service.py.                                *)
(***************************************************************************)
\* 'prompt'
K_prompt == <<"p","r","o","m","p","t">>
\* 'width'
K_width == <<"w","i","d","t","h">>
\* 'height'
K_height == <<"h","e","i","g","h","t">>
\* 'seed'
K_seed == <<"s","e","e","d">>
\* 'num_steps'
K_num_steps == <<"n","u","m","_","s","t","e","p","s">>
\* 'guidance_scale'
K_guidance_scale == <<"g","u","i","d","a","n","c","e","_","s","c","a","l","e">>
\* 'output_format'
K_output_format == <<"o","u","t","p","u","t","_","f","o","r","m","a","t">>
\* ''
D_prompt == <<>>
\* Mutant of D_width: another default width.
D_width_512 == <<"5","1","2">>
\* '1024'
D_width == <<"1","0","2","4">>
\* '1024'
D_height == <<"1","0","2","4">>
\* '0'
D_seed == <<"0">>
\* '4'
D_num_steps == <<"4">>
\* '0.0'
D_guidance_scale == <<"0",".","0">>
\* 'png'
D_output_format == <<"p","n","g">>
\* '/tmp/generated_image.'
GeneratedImage == <<"/","t","m","p","/","g","e","n","e","r","a","t","e","d","_","i","m","a","g","e",".">>
\* 'zimage/generate'
QueryablePrefix == <<"z","i","m","a","g","e","/","g","e","n","e","r","a","t","e">>

\* The liveliness token and the queryable's key expression.
LivelinessToken == "forge/services/qwen3vl"
QueryableKeyExpr == "zimage/generate/**"

(***************************************************************************)
(* Inputs: the addresses the clients send.                                 *)
(***************************************************************************)
\* zimage/generate?prompt=cat&width=512&height=512
ScenarioA == <<"z","i","m","a","g","e","/","g","e","n","e","r","a","t","e","?","p","r","o","m","p","t","=","c","a","t","&","w","i","d","t","h","=","5","1","2","&","h","e","i","g","h","t","=","5","1","2">>
\* zimage/generate?prompt=dog&output_format=jpg
ScenarioB == <<"z","i","m","a","g","e","/","g","e","n","e","r","a","t","e","?","p","r","o","m","p","t","=","d","o","g","&","o","u","t","p","u","t","_","f","o","r","m","a","t","=","j","p","g">>
\* zimage/generate
ScenarioC == <<"z","i","m","a","g","e","/","g","e","n","e","r","a","t","e">>
\* zimage/generate?width=abc
BadWidth == <<"z","i","m","a","g","e","/","g","e","n","e","r","a","t","e","?","w","i","d","t","h","=","a","b","c">>
\* zimage/generate?seed=1&guidance_scale=x
BadScale == <<"z","i","m","a","g","e","/","g","e","n","e","r","a","t","e","?","s","e","e","d","=","1","&","g","u","i","d","a","n","c","e","_","s","c","a","l","e","=","x">>

ServiceAddresses == {ScenarioA, ScenarioB, ScenarioC, BadWidth, BadScale}

\* The '&'-separated pieces a generated query component is made of.
Pieces ==
  \* prompt=cat
  { <<"p","r","o","m","p","t","=","c","a","t">>
  \* prompt=a+b%3F
  , <<"p","r","o","m","p","t","=","a","+","b","%","3","F">>
  \* width=512
  , <<"w","i","d","t","h","=","5","1","2">>
  \* width=64
  , <<"w","i","d","t","h","=","6","4">>
  \* width=
  , <<"w","i","d","t","h","=">>
  \* width=abc
  , <<"w","i","d","t","h","=","a","b","c">>
  \* height=+7
  , <<"h","e","i","g","h","t","=","+","7">>
  \* height=512
  , <<"h","e","i","g","h","t","=","5","1","2">>
  \* seed=-3
  , <<"s","e","e","d","=","-","3">>
  \* seed=7
  , <<"s","e","e","d","=","7">>
  \* seed
  , <<"s","e","e","d">>
  \* num%5Fsteps=1_0
  , <<"n","u","m","%","5","F","s","t","e","p","s","=","1","_","0">>
  \* num_steps=8
  , <<"n","u","m","_","s","t","e","p","s","=","8">>
  \* guidance_scale=1.5
  , <<"g","u","i","d","a","n","c","e","_","s","c","a","l","e","=","1",".","5">>
  \* guidance_scale=7e-1
  , <<"g","u","i","d","a","n","c","e","_","s","c","a","l","e","=","7","e","-","1">>
  \* output_format=jpg
  , <<"o","u","t","p","u","t","_","f","o","r","m","a","t","=","j","p","g">>
  \* output_format=g?f
  , <<"o","u","t","p","u","t","_","f","o","r","m","a","t","=","g","?","f">>
  \* output_format=
  , <<"o","u","t","p","u","t","_","f","o","r","m","a","t","=">>
  \* (the empty piece)
  , <<>>
  }

\* The query components of at most MaxPieces pieces, joined by '&'.
RECURSIVE join(_)
join(ps) ==
  IF ps = <<>> THEN <<>>
  ELSE IF Len(ps) = 1 THEN ps[1]
  ELSE ps[1] \o <<"&">> \o join(Tail(ps))

QueryComponents ==
  {join(ps) : ps \in UNION {[1..n -> Pieces] : n \in 0..MaxPieces}}

\* The prefix followed by '?' or by '/' and a query component: with '/' the
\* address carries the same keys and values but no query component, unless
\* a value holds a '?' of its own.
ParseAddresses ==
  {QueryablePrefix \o <<sep>> \o qc : sep \in {"?", "/"}, qc \in QueryComponents}
  \cup {QueryablePrefix}

(***************************************************************************)
(* State.                                                                  *)
(***************************************************************************)
VARIABLES
  pc,          \* where main() is: "open", "declare_token",
               \* "declare_queryable", "receive" (async for awaits a query),
               \* "sleep" (process_inference awaits asyncio.sleep),
               \* "reply" (awaits query.reply), "raised" (an exception left main)
  session,     \* "closed" or "open"
  liveliness,  \* the declared liveliness token, "" when none
  queryable,   \* the declared queryable's key expression, "" when none
  issued,      \* every address the clients have sent, in order; a request's
               \* identity is its index
  channel,     \* requests delivered to the queryable and not yet taken
  received,    \* requests the async for loop has taken, in order
  query,       \* the request bound to the loop variable, 0 before the first
  locals,      \* main()'s local variables that are bound, by name
  exc,         \* the exception that left main(), NoException when none
  replies      \* every reply sent: [query, payload], in order

vars ==
  <<pc, session, liveliness, queryable, issued, channel, received, query,
    locals, exc, replies>>

NoException == [type |-> "none", line |-> 0]

\* name = v, for a local that may be unbound.
Assign(l, name, v) ==
  [n \in DOMAIN l \cup {name} |-> IF n = name THEN v ELSE l[n]]

Init ==
  /\ pc = "open"
  /\ session = "closed"
  /\ liveliness = ""
  /\ queryable = ""
  /\ issued = <<>>
  /\ channel = <<>>
  /\ received = <<>>
  /\ query = 0
  /\ locals = [n \in {} |-> 0]
  /\ exc = NoException
  /\ replies = <<>>

(***************************************************************************)
(* The handler's pure steps.                                               *)
(***************************************************************************)
\* Mutant of has_query: any separator counts as a query component.
has_query_or_pair(key_expr) ==
  "?" \in Range(key_expr) \/ "&" \in Range(key_expr)

\* '?' in key_expr
has_query(key_expr) == "?" \in Range(key_expr)

\* key_expr.split('?', 1)[1]
params_str_of(key_expr) ==
  SubSeq(key_expr, find(key_expr, "?") + 1, Len(key_expr))

\* Mutant of get: a missing output_format keeps the value the previous
\* request left in the locals instead of taking the default.
get_stale(params, key, default) ==
  IF key \in DOMAIN params THEN params[key]
  ELSE IF key = K_output_format /\ "output_format" \in DOMAIN locals
  THEN <<locals.output_format>>
  ELSE default

\* dict.get(key, default).
get(params, key, default) ==
  IF key \in DOMAIN params THEN params[key] ELSE default

\* The locals after the assignments to the names in bound, taken from v.
assigned(l0, v, bound) ==
  [n \in DOMAIN l0 \cup bound |-> IF n \in bound THEN v[n] ELSE l0[n]]

\* Mutant of extract: a conversion that fails is guarded and yields 0, so
\* that no ValueError is raised.
extract_guarded(l0, params) ==
  [locals |->
     assigned(l0,
              [prompt |-> get(params, K_prompt, <<D_prompt>>)[1],
               width |-> int(get(params, K_width, <<D_width>>)[1]).val,
               height |-> int(get(params, K_height, <<D_height>>)[1]).val,
               seed |-> int(get(params, K_seed, <<D_seed>>)[1]).val,
               num_steps |->
                 int(get(params, K_num_steps, <<D_num_steps>>)[1]).val,
               guidance_scale |->
                 float(get(params, K_guidance_scale,
                           <<D_guidance_scale>>)[1]).val,
               output_format |->
                 get(params, K_output_format, <<D_output_format>>)[1]],
              {"prompt", "width", "height", "seed", "num_steps",
               "guidance_scale", "output_format"}),
   exc |-> NoException]

\* The seven assignments from params, in order.  int() or float() raising
\* ValueError ends them: the result is the locals bound so far and the
\* raising line.  (Each conversion is bound once, as a set's only element.)
extract(l0, params) ==
  CHOOSE r \in
    { LET v == [prompt |-> p, width |-> w.val, height |-> h.val,
                seed |-> s.val, num_steps |-> n.val,
                guidance_scale |-> g.val, output_format |-> o]
          ValueError(line) == [type |-> "ValueError", line |-> line]
      IN  IF ~w.ok
          THEN [locals |-> assigned(l0, v, {"prompt"}),
                exc |-> ValueError(35)]
          ELSE IF ~h.ok
          THEN [locals |-> assigned(l0, v, {"prompt", "width"}),
                exc |-> ValueError(36)]
          ELSE IF ~s.ok
          THEN [locals |-> assigned(l0, v, {"prompt", "width", "height"}),
                exc |-> ValueError(37)]
          ELSE IF ~n.ok
          THEN [locals |-> assigned(l0, v, {"prompt", "width", "height",
                                            "seed"}),
                exc |-> ValueError(38)]
          ELSE IF ~g.ok
          THEN [locals |-> assigned(l0, v, {"prompt", "width", "height",
                                            "seed", "num_steps"}),
                exc |-> ValueError(39)]
          ELSE [locals |-> assigned(l0, v, DOMAIN v), exc |-> NoException]
      : p \in {get(params, K_prompt, <<D_prompt>>)[1]},
        w \in {int(get(params, K_width, <<D_width>>)[1])},
        h \in {int(get(params, K_height, <<D_height>>)[1])},
        s \in {int(get(params, K_seed, <<D_seed>>)[1])},
        n \in {int(get(params, K_num_steps, <<D_num_steps>>)[1])},
        g \in {float(get(params, K_guidance_scale, <<D_guidance_scale>>)[1])},
        o \in {get(params, K_output_format, <<D_output_format>>)[1]} } : TRUE

\* Mutant of process_inference: the path is built from the prompt.
process_inference_prompt(prompt, width, height, seed, num_steps, guidance_scale, output_format) ==
  GeneratedImage \o prompt

\* process_inference's result once its sleep is over.
process_inference(prompt, width, height, seed, num_steps, guidance_scale, output_format) ==
  GeneratedImage \o output_format

\* The InferenceResponse table: result_data and the extensions map.
InferenceResponse(result_data, extensions) ==
  [result_data |-> result_data, extensions |-> extensions]

success_response(output_path) ==
  InferenceResponse(<<>>, [status |-> "success", output_path |-> output_path])

error_response ==
  InferenceResponse(<<>>, [status |-> "error",
                           reason |-> "Invalid request format"])

\* Whether the queryable's key expression covers an address.
matches(key_expr) ==
  /\ Len(key_expr) >= Len(QueryablePrefix)
  /\ SubSeq(key_expr, 1, Len(QueryablePrefix)) = QueryablePrefix

(***************************************************************************)
(* Actions.                                                                *)
(***************************************************************************)
\* zenoh.open(zenoh.Config()) gives a session.
OpenSession ==
  /\ pc = "open"
  /\ session' = "open"
  /\ pc' = "declare_token"
  /\ UNCHANGED <<liveliness, queryable, issued, channel, received, query,
                 locals, exc, replies>>

\* zenoh.open raises: nothing guards it, the exception leaves main().
OpenSessionFails ==
  /\ pc = "open"
  /\ exc' = [type |-> "ZError", line |-> 17]
  /\ pc' = "raised"
  /\ UNCHANGED <<session, liveliness, queryable, issued, channel, received,
                 query, locals, replies>>

\* Mutant of DeclareToken: main() goes on without the token declared.
DeclareToken_skipped ==
  /\ pc = "declare_token"
  /\ pc' = "declare_queryable"
  /\ UNCHANGED <<session, liveliness, queryable, issued, channel, received,
                 query, locals, exc, replies>>

\* session.liveness().declare_token("forge/services/qwen3vl")
DeclareToken ==
  /\ pc = "declare_token"
  /\ liveliness' = LivelinessToken
  /\ pc' = "declare_queryable"
  /\ UNCHANGED <<session, queryable, issued, channel, received, query,
                 locals, exc, replies>>

\* session.declare_queryable("zimage/generate/**")
DeclareQueryable ==
  /\ pc = "declare_queryable"
  /\ queryable' = QueryableKeyExpr
  /\ pc' = "receive"
  /\ UNCHANGED <<session, liveliness, issued, channel, received, query,
                 locals, exc, replies>>

\* A client sends a query to address a.  It reaches the queryable's channel
\* when the queryable is declared; otherwise nobody receives it.
Issue(a, max) ==
  /\ Len(issued) < max
  /\ matches(a)
  /\ issued' = Append(issued, a)
  /\ channel' = IF session = "open" /\ queryable # ""
                THEN Append(channel, Len(issued) + 1)
                ELSE channel
  /\ UNCHANGED <<pc, session, liveliness, queryable, received, query,
                 locals, exc, replies>>

\* Mutant of next_query: the newest query in the channel is taken.
next_query_newest == channel[Len(channel)]

\* The loop's next query (the head of the channel).
next_query == Head(channel)

\* async for query in queryable: the next query is taken and handled up to
\* the handler's first await.  With a '?' the parameters are parsed and
\* process_inference starts its sleep, or a ValueError leaves the loop, the
\* async with block (which closes the session) and main(); without a '?'
\* the error response is built.
NextQuery ==
  /\ pc = "receive"
  /\ channel # <<>>
  /\ \E q \in {next_query} :
       /\ query' = q
       /\ channel' = SelectSeq(channel, LAMBDA x : x # q)
       /\ received' = Append(received, q)
       /\ IF has_query(issued[q])
          THEN \E r \in {extract(locals,
                                 parse_qs(params_str_of(issued[q])))} :
                 /\ locals' = r.locals
                 /\ exc' = r.exc
                 /\ IF r.exc = NoException
                    THEN /\ pc' = "sleep"
                         /\ UNCHANGED <<session, liveliness, queryable>>
                    ELSE /\ pc' = "raised"
                         /\ session' = "closed"
                         /\ liveliness' = ""
                         /\ queryable' = ""
          ELSE /\ locals' = Assign(locals, "encoded", error_response)
               /\ pc' = "reply"
               /\ UNCHANGED <<session, liveliness, queryable, exc>>
  /\ UNCHANGED <<issued, replies>>

\* asyncio.sleep(0.1) is over: process_inference returns the output path and
\* the success response is built.
ProcessInference ==
  /\ pc = "sleep"
  /\ LET output_path ==
           process_inference(locals.prompt, locals.width, locals.height,
                             locals.seed, locals.num_steps,
                             locals.guidance_scale, locals.output_format)
     IN  locals' = Assign(Assign(locals, "output_path", output_path),
                          "encoded", success_response(output_path))
  /\ pc' = "reply"
  /\ UNCHANGED <<session, liveliness, queryable, issued, channel, received,
                 query, exc, replies>>

\* await query.reply(encoded): the reply goes to the query's sender.
Reply ==
  /\ pc = "reply"
  /\ replies' = Append(replies, [query |-> query, payload |-> locals.encoded])
  /\ pc' = "receive"
  /\ UNCHANGED <<session, liveliness, queryable, issued, channel, received,
                 query, locals, exc>>

\* The clients of Spec send up to MaxRequests of the service addresses.
IssueService == \E a \in ServiceAddresses : Issue(a, MaxRequests)

\* The client of SpecParse sends one generated address, once the queryable
\* is there to receive it.
IssueParse ==
  /\ queryable # ""
  /\ \E a \in ParseAddresses : Issue(a, 1)

Service ==
  \/ OpenSession
  \/ OpenSessionFails
  \/ DeclareToken
  \/ DeclareQueryable
  \/ NextQuery
  \/ ProcessInference
  \/ Reply

Next == Service \/ IssueService

Spec == Init /\ [][Next]_vars

NextParse == Service \/ IssueParse

SpecParse == Init /\ [][NextParse]_vars

\* NextQuery is enabled exactly when the loop awaits a query and the channel
\* holds one.
NextQueryEnabled == pc = "receive" /\ channel # <<>>

\* The steps of main() other than NextQuery.
Resume ==
  \/ OpenSession
  \/ OpenSessionFails
  \/ DeclareToken
  \/ DeclareQueryable
  \/ ProcessInference
  \/ Reply

\* asyncio runs main() whenever what it awaits is ready: weak fairness of
\* every step of main().  For NextQuery it is written out, as a NextQuery
\* step always leaves NextQuery disabled:
\*   WF_vars(NextQuery) = []<>~ENABLED <<NextQuery>>_vars = []<>~NextQueryEnabled
FairSpec == Spec /\ WF_vars(Resume) /\ []<>~NextQueryEnabled

(***************************************************************************)
(* Vocabulary of the properties.                                           *)
(***************************************************************************)
HasQuestionMark(a) == \E i \in 1..Len(a) : a[i] = "?"

Last(s) == s[Len(s)]

Min(S) == CHOOSE x \in S : \A y \in S : x <= y

\* The positions in replies of the replies to request i.
RepliesTo(i) == {k \in 1..Len(replies) : replies[k].query = i}

AddressOfReply(k) == issued[replies[k].query]

FieldNames ==
  {"prompt", "width", "height", "seed", "num_steps", "guidance_scale",
   "output_format"}

FieldKey ==
  [prompt |-> K_prompt, width |-> K_width, height |-> K_height,
   seed |-> K_seed, num_steps |-> K_num_steps,
   guidance_scale |-> K_guidance_scale, output_format |-> K_output_format]

\* The defaults as section 3 of the specification states them.
StatedDefault ==
  [prompt |-> <<>>, width |-> 1024, height |-> 1024, seed |-> 0,
   num_steps |-> 4,
   guidance_scale |-> [kind |-> "finite", neg |-> FALSE, m |-> 0, e |-> 0],
   output_format |-> <<"p","n","g">>]

\* The conversion a field's text goes through.
Converted(f, text) ==
  IF f \in {"width", "height", "seed", "num_steps"} THEN int(text)
  ELSE IF f = "guidance_scale" THEN float(text)
  ELSE [ok |-> TRUE, val |-> text]

\* The '&'-separated pieces of the query component of address a, and the
\* decoded key and value each piece writes (everything before its first '=',
\* everything after it).
PiecesOf(a) == split(SubSeq(a, find(a, "?") + 1, Len(a)), "&")

KeyOf(p) == unquote(replace_plus(partition(p, "=").name))

RawValueOf(p) == partition(p, "=").value

ValueOf(p) == unquote(replace_plus(RawValueOf(p)))

\* Where key occurs in the query component of a (the key=value pieces whose
\* decoded key it is), and where it occurs with a value that is not empty.
Occurrences(a, key) ==
  {i \in 1..Len(PiecesOf(a)) :
     /\ partition(PiecesOf(a)[i], "=").has_eq
     /\ KeyOf(PiecesOf(a)[i]) = key}

ValuedOccurrences(a, key) ==
  {i \in Occurrences(a, key) : RawValueOf(PiecesOf(a)[i]) # <<>>}

\* The request main() is handling or has handled last, when its address has
\* a query component and every field was assigned.
Parsed ==
  /\ pc \in {"sleep", "reply", "receive"}
  /\ query # 0
  /\ HasQuestionMark(issued[query])

(***************************************************************************)
(* C1.  A request whose address has no '?' gets the fixed error record     *)
(* (status "error", reason "Invalid request format", empty result_data)    *)
(* as its reply, whatever else the address holds; no parameter is parsed   *)
(* and process_inference is not invoked for it.                            *)
(***************************************************************************)
C1_NoQueryIsError ==
  /\ \A k \in 1..Len(replies) :
       ~HasQuestionMark(AddressOfReply(k)) =>
         replies[k].payload =
           [result_data |-> <<>>,
            extensions |-> [status |-> "error",
                            reason |-> "Invalid request format"]]
  /\ (query # 0 /\ ~HasQuestionMark(issued[query])) =>
       /\ pc \in {"reply", "receive"}
       /\ exc = NoException
       /\ DOMAIN locals \subseteq {"encoded"}
       /\ pc = "receive" => Cardinality(RepliesTo(query)) = 1

C1_Witness ==
  /\ replies # <<>>
  /\ ~HasQuestionMark(AddressOfReply(1))
  /\ {"&", "=", "%"} \subseteq Range(AddressOfReply(1))
  /\ Occurrences(<<"?">> \o AddressOfReply(1), K_width) # {}

(***************************************************************************)
(* C2.  A request whose address has a '?' gets a reply with status         *)
(* "success": once its handling is over, such a reply has been sent.       *)
(***************************************************************************)
C2_QueryAlwaysSucceeds ==
  \A i \in Range(received) :
    (HasQuestionMark(issued[i]) /\ ~(query = i /\ pc \in {"sleep", "reply"}))
      => \E k \in RepliesTo(i) : replies[k].payload.extensions.status = "success"

(***************************************************************************)
(* C3.  Every request the loop receives is eventually answered with        *)
(* exactly one reply: never none and never more than one.                  *)
(***************************************************************************)
C3_ExactlyOneReply ==
  /\ [](\A i \in 1..Len(issued) : Cardinality(RepliesTo(i)) <= 1)
  /\ \A i \in 1..MaxRequests :
       (i \in Range(received)) ~> (Cardinality(RepliesTo(i)) = 1)

(***************************************************************************)
(* C4.  For a request whose address has a '?', the reply's output_path is  *)
(* "/tmp/generated_image." followed by the request's output_format (the    *)
(* first valued occurrence of the key, "png" without one), whatever the    *)
(* prompt, width, height, seed, num_steps and guidance_scale are.          *)
(***************************************************************************)
OutputFormatOf(a) ==
  IF ValuedOccurrences(a, K_output_format) = {} THEN <<"p","n","g">>
  ELSE ValueOf(PiecesOf(a)[Min(ValuedOccurrences(a, K_output_format))])

C4_PathFromFormatAlone ==
  \A k \in 1..Len(replies) :
    HasQuestionMark(AddressOfReply(k)) =>
      /\ replies[k].payload.extensions.status = "success"
      /\ replies[k].payload.extensions.output_path =
           <<"/","t","m","p","/","g","e","n","e","r","a","t","e","d","_","i","m","a","g","e",".">> \o OutputFormatOf(AddressOfReply(k))

C4_Witness ==
  /\ replies # <<>>
  /\ HasQuestionMark(AddressOfReply(1))
  /\ ValuedOccurrences(AddressOfReply(1), K_width) # {}
  /\ locals.width = 512
  /\ replies[1].payload.extensions.output_path = <<"/","t","m","p","/","g","e","n","e","r","a","t","e","d","_","i","m","a","g","e",".">> \o <<"j","p","g">>

(***************************************************************************)
(* C5.  When a key occurs several times in the query component, the value  *)
(* extracted for its field is the value of the key's first occurrence.     *)
(* This is the claim as made; it fails when the first occurrence has an    *)
(* empty value (key=).                                                     *)
(***************************************************************************)
C5_FirstOccurrenceWins ==
  (query # 0 /\ HasQuestionMark(issued[query])) =>
    \A f \in FieldNames \cap DOMAIN locals :
      Cardinality(Occurrences(issued[query], FieldKey[f])) >= 2 =>
        LET first == PiecesOf(issued[query])
                       [Min(Occurrences(issued[query], FieldKey[f]))]
        IN  Converted(f, ValueOf(first)) = [ok |-> TRUE, val |-> locals[f]]

(***************************************************************************)
(* C5 as amended.  When a key occurs several times, the value extracted    *)
(* for its field is the value of the first occurrence that has a non-empty *)
(* value: occurrences with an empty value are skipped, later occurrences   *)
(* are ignored, and the default is taken when every occurrence is empty.   *)
(***************************************************************************)
C5_FirstValuedOccurrenceWins ==
  (query # 0 /\ HasQuestionMark(issued[query])) =>
    \A f \in FieldNames \cap DOMAIN locals :
      Cardinality(Occurrences(issued[query], FieldKey[f])) >= 2 =>
        IF ValuedOccurrences(issued[query], FieldKey[f]) = {}
        THEN locals[f] = StatedDefault[f]
        ELSE LET first ==
                   PiecesOf(issued[query])
                     [Min(ValuedOccurrences(issued[query], FieldKey[f]))]
             IN  Converted(f, ValueOf(first)) = [ok |-> TRUE, val |-> locals[f]]

\* A key given twice with two values, the first one extracted.
C5_Witness ==
  /\ Parsed
  /\ \E f \in FieldNames :
       LET occ == ValuedOccurrences(issued[query], FieldKey[f])
       IN  /\ Cardinality(occ) = 2
           /\ \E i \in occ, j \in occ :
                /\ i < j
                /\ ValueOf(PiecesOf(issued[query])[i])
                     # ValueOf(PiecesOf(issued[query])[j])
                /\ Converted(f, ValueOf(PiecesOf(issued[query])[i])).val
                     = locals[f]

(***************************************************************************)
(* C6.  For a request whose address has a '?', every field whose key is    *)
(* missing from the query component has its stated default, whichever      *)
(* other keys are present; an address ending in a bare '?' is answered     *)
(* with success and output_path "/tmp/generated_image.png".                *)
(***************************************************************************)
C6_MissingKeysDefault ==
  /\ (query # 0 /\ HasQuestionMark(issued[query])) =>
       \A f \in FieldNames \cap DOMAIN locals :
         Occurrences(issued[query], FieldKey[f]) = {} =>
           locals[f] = StatedDefault[f]
  /\ Parsed => FieldNames \subseteq DOMAIN locals
  /\ \A k \in 1..Len(replies) :
       AddressOfReply(k) = QueryablePrefix \o <<"?">> =>
         replies[k].payload =
           [result_data |-> <<>>,
            extensions |-> [status |-> "success",
                            output_path |-> <<"/","t","m","p","/","g","e","n","e","r","a","t","e","d","_","i","m","a","g","e",".">> \o <<"p","n","g">>]]
  /\ (query # 0 /\ pc = "receive"
        /\ issued[query] = QueryablePrefix \o <<"?">>) =>
       Cardinality(RepliesTo(query)) = 1

\* One key present, the six others missing and at their defaults.
C6_Witness ==
  /\ Parsed
  /\ pc = "receive"
  /\ Occurrences(issued[query], K_seed) # {}
  /\ \A f \in FieldNames \ {"seed"} :
       Occurrences(issued[query], FieldKey[f]) = {}
  /\ locals.seed = 7
  /\ locals.width = 1024
  /\ locals.output_format = <<"p","n","g">>

C8_StartupOrder ==
  /\ pc = "open" =>
       /\ session = "closed" /\ liveliness = "" /\ queryable = ""
       /\ channel = <<>> /\ received = <<>> /\ replies = <<>>
  /\ pc = "declare_token" =>
       /\ session = "open" /\ liveliness = "" /\ queryable = ""
       /\ channel = <<>> /\ received = <<>> /\ replies = <<>>
  /\ pc = "declare_queryable" =>
       /\ session = "open" /\ liveliness = "forge/services/qwen3vl"
       /\ queryable = ""
       /\ channel = <<>> /\ received = <<>> /\ replies = <<>>
  /\ pc \in {"receive", "sleep", "reply"} =>
       /\ session = "open" /\ liveliness = "forge/services/qwen3vl"
       /\ queryable = "zimage/generate/**"
  /\ exc.type = "ZError" =>
       /\ pc = "raised"
       /\ session = "closed" /\ liveliness = "" /\ queryable = ""
       /\ channel = <<>> /\ received = <<>> /\ replies = <<>>

\* A request inside process_inference after an earlier one was answered.
C8_Witness ==
  /\ pc = "sleep"
  /\ replies # <<>>
  /\ session = "open"
  /\ liveliness = "forge/services/qwen3vl"

(***************************************************************************)
(* C9.  Requests are handled one at a time: the loop takes the next        *)
(* request only after the reply to the previous one was sent, so at most   *)
(* one request is inside process_inference's sleep, and the replies are    *)
(* sent in the order in which the requests were received.                  *)
(***************************************************************************)
C9_OneAtATime ==
  /\ Len(received) <= Len(replies) + 1
  /\ pc = "receive" => Len(received) = Len(replies)
  /\ pc \in {"sleep", "reply"} =>
       /\ Len(received) = Len(replies) + 1
       /\ Last(received) = query
  /\ \A k \in 1..Len(replies) : replies[k].query = received[k]
  /\ \A k1 \in 1..Len(received), k2 \in 1..Len(received) :
       k1 < k2 => received[k1] < received[k2]
  /\ \A i \in Range(channel) : \A j \in Range(received) : j < i

\* One request asleep in process_inference while two others wait.
C9_Witness ==
  /\ pc = "sleep"
  /\ Len(channel) >= 2
  /\ Len(received) = 1

(***************************************************************************)
(* C10.  A request whose address has a '?' and whose width, height, seed,  *)
(* num_steps or guidance_scale value does not parse as a number raises an  *)
(* unguarded ValueError before process_inference: no reply is sent for it, *)
(* the exception leaves the loop, and no request arriving afterwards is    *)
(* handled or answered.                                                    *)
(***************************************************************************)
\* The text a field is converted from: its first valued occurrence.
TextOf(a, f) ==
  PiecesOf(a)[Min(ValuedOccurrences(a, FieldKey[f]))]

Unparsable(a) ==
  /\ HasQuestionMark(a)
  /\ \E f \in {"width", "height", "seed", "num_steps", "guidance_scale"} :
       /\ ValuedOccurrences(a, FieldKey[f]) # {}
       /\ ~Converted(f, ValueOf(TextOf(a, f))).ok

C10_FaultEndsService ==
  /\ [](\A i \in Range(received) :
          Unparsable(issued[i]) =>
            /\ pc = "raised"
            /\ exc.type = "ValueError"
            /\ Last(received) = i
            /\ RepliesTo(i) = {}
            /\ session = "closed" /\ liveliness = "" /\ queryable = "")
  /\ [][pc = "raised" =>
          /\ pc' = "raised"
          /\ received' = received
          /\ replies' = replies
          /\ channel' = channel
          /\ locals' = locals]_vars

\* The fault has happened with one request waiting in the channel, and a
\* request has arrived afterwards.
C10_Witness ==
  /\ pc = "raised"
  /\ exc.type = "ValueError"
  /\ received # <<>>
  /\ Unparsable(issued[Last(received)])
  /\ channel # <<>>
  /\ Len(issued) > Last(channel)

=============================================================================
